---------------------------- MODULE Spec2Model ----------------------------
(***************************************************************************)
(* A model of ccglibcloud.ec2spot (EC2SpotNodeDriver) and of the caller in  *)
(* example.py.                                                             *)
(*                                                                         *)
(* Python values are tagged records ([t |-> "str", v |-> ...]) so that     *)
(* values of different Python types can live in one dictionary.  A Python  *)
(* dict is a TLA+ function whose DOMAIN is the set of its keys.            *)
(***************************************************************************)
EXTENDS Integers, Sequences, FiniteSets, TLC

VARIABLES
    pc,        \* where the driver call stands ("idle", a create_node stage, "done")
    op,        \* the driver operation in progress or last finished
    kwargs,    \* the keyword arguments of the call (a dict)
    params,    \* the local dict `params` of the operation
    bdm,       \* the dict inside _get_block_device_mapping_params
    ahead,     \* keys of bdm the running dict iterator has still to yield
    sent,      \* transport requests issued by the call, in order
    lookups,   \* key-pair lookup/import calls made by the call, in order
    response,  \* the provider's answer to the last request of the call
    result,    \* what the call returned or raised
    ex_pc,     \* example.py: position in create_spot_request
    ex_spot,   \* example.py: the local variable `spot`
    ex_node,   \* example.py: the local variable `node`
    ex_calls,  \* example.py: the driver calls made so far, in order
    ex_obs,    \* example.py: the spot states the while-condition has read
    ex_error   \* example.py: the exception that ended the script, if any

drv_vars == <<pc, op, kwargs, params, bdm, ahead, sent, lookups, response, result>>
ex_vars  == <<ex_pc, ex_spot, ex_node, ex_calls, ex_obs, ex_error>>
vars     == <<pc, op, kwargs, params, bdm, ahead, sent, lookups, response, result,
              ex_pc, ex_spot, ex_node, ex_calls, ex_obs, ex_error>>

----------------------------------------------------------------------------
(* Bounds of the model.                                                    *)

\* Optional keyword arguments supplied to one create_node call.
MaxOptions == 3
\* Items in one provider response.
MaxItems == 2
\* Times one key is re-yielded by the dict iterator it was re-inserted under.
MaxPrefix == 2
\* Polls of the example's while loop that observe OPEN.
MaxPolls == 3

----------------------------------------------------------------------------
(* Python values.                                                          *)

None       == [t |-> "NoneType"]
Str(s)     == [t |-> "str", v |-> s]
PyInt(n)   == [t |-> "int", v |-> n]
PyBool(b)  == [t |-> "bool", v |-> b]
List(q)    == [t |-> "list", v |-> q]

\* Python truth value testing (`if x:`, `x or y`).
Truthy(x) ==
    CASE x.t = "NoneType" -> FALSE
      [] x.t = "str"      -> x.v # ""
      [] x.t = "int"      -> x.v # 0
      [] x.t = "bool"     -> x.v
      [] x.t = "list"     -> Len(x.v) > 0
      [] OTHER            -> TRUE

\* `a or b`
PyOr(a, b) == IF Truthy(a) THEN a ELSE b

\* dict.get(key, default)
Get(d, k, default) == IF k \in DOMAIN d THEN d[k] ELSE default

\* getattr(obj, name, default)
GetAttr(o, name, default) == IF name \in DOMAIN o THEN o[name] ELSE default

\* '%d' % n, for the indices the model reaches.
IntStr(n) == <<"1", "2", "3", "4", "5", "6", "7", "8", "9">>[n]

\* str(x)
PyStr(x) ==
    CASE x.t = "NoneType" -> "None"
      [] x.t = "str"      -> x.v
      [] x.t = "int"      -> IF x.v = 0 THEN "0" ELSE IntStr(x.v)
      [] x.t = "bool"     -> IF x.v THEN "True" ELSE "False"

\* d.update(e): e's entries win.
Update(d, e) == [k \in DOMAIN d \cup DOMAIN e |-> IF k \in DOMAIN e THEN e[k] ELSE d[k]]

\* d[k] = v
Put(d, k, v) == [x \in DOMAIN d \cup {k} |-> IF x = k THEN v ELSE d[x]]

\* del d[k]
Del(d, k) == [x \in DOMAIN d \ {k} |-> d[x]]

EmptyDict == [x \in {} |-> None]

Returned(v)      == [kind |-> "return", value |-> v]
Raised(exc, msg) == [kind |-> "raise", exc |-> exc, msg |-> msg]
NoResult         == [kind |-> "none"]

----------------------------------------------------------------------------
(* SpotRequestState and SPOT_REQUEST_STATE_MAP.                            *)

OPEN      == 0
CLOSED    == 1
FAILED    == 2
CANCELLED == 3
ACTIVE    == 4

SpotRequestState == {OPEN, CLOSED, FAILED, CANCELLED, ACTIVE}

\* The wire tokens the driver knows.
WireTokens == {"open", "closed", "failed", "cancelled", "active"}

\* A token the provider could send that the driver does not know.
UnknownToken == "cancelled-by-user"

\* The same map with a catch-all entry: every other token reads as OPEN.
SPOT_REQUEST_STATE_MAP_Defaulting ==
    [tok \in WireTokens \cup {UnknownToken} |->
        CASE tok = "open"      -> OPEN
          [] tok = "closed"    -> CLOSED
          [] tok = "failed"    -> FAILED
          [] tok = "cancelled" -> CANCELLED
          [] tok = "active"    -> ACTIVE
          [] OTHER             -> OPEN]

SPOT_REQUEST_STATE_MAP ==
    [tok \in WireTokens |->
        CASE tok = "open"      -> OPEN
          [] tok = "closed"    -> CLOSED
          [] tok = "failed"    -> FAILED
          [] tok = "cancelled" -> CANCELLED
          [] tok = "active"    -> ACTIVE]

\* SPOT_REQUEST_STATE_MAP[key], where key is a Python value: a key the dict
\* does not hold (None included) is a KeyError.
StateLookup(key) ==
    IF key.t = "str" /\ key.v \in DOMAIN SPOT_REQUEST_STATE_MAP
    THEN Returned(SPOT_REQUEST_STATE_MAP[key.v])
    ELSE Raised("KeyError", <<PyStr(key)>>)

----------------------------------------------------------------------------
(* Provider responses.  A response is the sequence of the item elements    *)
(* under spotInstanceRequestSet; an element is the dict of its children's  *)
(* text.                                                                   *)

\* The launchSpecification child of an item.
LaunchSpec == [imageId |-> "ami-f195f1cb", groups |-> <<"default">>]

\* The i-th item of a response, by what its state child holds: a token, or
\* "-state" for an item without a state child, or "-launchSpecification" for
\* an open item without a launchSpecification child.  The provider numbers
\* the requests; no item carries status/message or availabilityZoneGroup.
Item(i, shape) ==
    LET id   == ("spotInstanceRequestId" :> ("sir-" \o IntStr(i)))
                @@ ("spotPrice" :> "0.080000")
                @@ ("status/code" :> "pending-evaluation")
        ls   == "launchSpecification" :> LaunchSpec
        st   == "state" :> shape
        inst == "instanceId" :> ("i-" \o IntStr(i))
    IN  CASE shape = "-state"               -> id @@ ls
          [] shape = "-launchSpecification" -> id @@ ("state" :> "open")
          [] shape = "active"               -> id @@ st @@ inst @@ ls
          [] OTHER                          -> id @@ st @@ ls

ItemShapes == WireTokens \cup {UnknownToken, "-state", "-launchSpecification"}

\* Responses of up to MaxItems items whose shapes are drawn from `shapes`.
Responses(shapes) ==
    UNION {{[i \in 1..n |-> Item(i, f[i])] : f \in [1..n -> shapes]} : n \in 0..MaxItems}

\* findtext(element, xpath): the child's text, or None when there is none.
findtext(element, xpath) ==
    IF xpath \in DOMAIN element THEN Str(element[xpath]) ELSE None

\* The record _to_spot_request builds from an element, in the code's order
\* of evaluation: the state lookup (line 259) precedes the
\* launchSpecification lookup (line 269).
_to_spot_request(element) ==
    LET state == StateLookup(findtext(element, "state"))
    IN  IF state.kind = "raise" THEN state
        ELSE IF "launchSpecification" \notin DOMAIN element
        THEN Raised("IndexError", <<"list index out of range">>)
        ELSE Returned([t           |-> "EC2SpotRequest",
                       id          |-> findtext(element, "spotInstanceRequestId"),
                       instance_id |-> findtext(element, "instanceId"),
                       spot_price  |-> findtext(element, "spotPrice"),
                       state       |-> state.value,
                       status      |-> findtext(element, "status/code"),
                       message     |-> findtext(element, "status/message"),
                       availability_zone_group |->
                                       findtext(element, "availabilityZoneGroup"),
                       extra       |-> [image_id |-> element["launchSpecification"].imageId,
                                        groups   |-> element["launchSpecification"].groups]])

\* [self._to_spot_request(el) for el in object.findall(...)]: the first
\* element that fails to parse ends the comprehension with its error.
_to_spot_requests(object) ==
    LET rs == [i \in 1..Len(object) |-> _to_spot_request(object[i])]
        bad == {i \in 1..Len(rs) : rs[i].kind = "raise"}
    IN  IF bad # {}
        THEN rs[CHOOSE i \in bad : \A j \in bad : i <= j]
        ELSE Returned([i \in 1..Len(rs) |-> rs[i].value])

\* self._pathlist(key, arr): key.1, key.2, ... for the items of arr.
_pathlist(key, arr) ==
    [k \in {key \o "." \o IntStr(i) : i \in 1..Len(arr)} |->
        arr[CHOOSE i \in 1..Len(arr) : k = key \o "." \o IntStr(i)]]

\* s.startswith(prefix)
startswith(s, prefix) ==
    Len(s) >= Len(prefix) /\ SubSeq(s, 1, Len(prefix)) = prefix

----------------------------------------------------------------------------
(* ex_cancel_spot_instance_request and ex_list_spot_requests.              *)

\* findall(res, 'spotInstanceRequestSet/item/state'): the state children of
\* the items, in document order.
findall_state(res) ==
    LET with == SelectSeq(res, LAMBDA el : "state" \in DOMAIN el)
    IN  [i \in 1..Len(with) |-> with[i]["state"]]

\* The request ex_cancel_spot_instance_request issues (lines 206-207).
CancelParams(spot_request) ==
    Update(("Action" :> Str("CancelSpotInstanceRequests")),
           _pathlist("SpotInstanceRequestId", <<spot_request.id>>))

\* The same reading the last state child instead of the first.
ex_cancel_spot_instance_request_Last(res) ==
    LET states == findall_state(res)
    IN  IF Len(states) = 0
        THEN Raised("IndexError", <<"list index out of range">>)
        ELSE LET state == StateLookup(Str(states[Len(states)]))
             IN  IF state.kind = "raise" THEN state
                 ELSE Returned(PyBool(state.value = CANCELLED))

\* What ex_cancel_spot_instance_request makes of the response res
\* (lines 209-212).
ex_cancel_spot_instance_request(res) ==
    LET states == findall_state(res)
    IN  IF Len(states) = 0
        THEN Raised("IndexError", <<"list index out of range">>)
        ELSE LET state == StateLookup(Str(states[1]))
             IN  IF state.kind = "raise" THEN state
                 ELSE Returned(PyBool(state.value = CANCELLED))

\* self._build_filters(filters): Filter.N.Name / Filter.N.Value.1 for the
\* single-entry filter dicts the model supplies.
_build_filters(filters) ==
    LET name == CHOOSE k \in DOMAIN filters : TRUE
    IN  ("Filter.1.Name" :> Str(name)) @@ ("Filter.1.Value.1" :> filters[name])

\* The request ex_list_spot_requests issues (lines 231-237).
ListParams(spot_request_ids, filters) ==
    LET p0 == ("Action" :> Str("DescribeSpotInstanceRequests"))
        p1 == IF Truthy(spot_request_ids)
              THEN Update(p0, _pathlist("SpotInstanceRequestId", spot_request_ids.v))
              ELSE p0
    IN  IF filters.t = "dict" /\ DOMAIN filters.v # {}
        THEN Update(p1, _build_filters(filters.v))
        ELSE p1

----------------------------------------------------------------------------
(* create_node: the keyword arguments the model supplies.                  *)

\* self.region_name of the driver the example uses.
region_name == "ap-southeast-2"

Zone(name, region) == [t |-> "ExEC2AvailabilityZone", name |-> name, region_name |-> region]
ZoneHere  == Zone("ap-southeast-2a", "ap-southeast-2")
ZoneThere == Zone("us-west-1b", "us-west-1")

AuthSSHKey   == [t |-> "NodeAuthSSHKey", pubkey |-> "ssh-rsa AAAAB3"]
AuthPassword == [t |-> "NodeAuthPassword", password |-> "hunter2"]

ArnProfile  == "arn:aws:iam::123456789012:instance-profile/spot"
NameProfile == "spot-profile"

\* The optional keyword arguments create_node reads, and the values the
\* model supplies for each.
OptionValues ==
    [ex_spot_price          |-> {Str("0.08")},
     ex_instance_count      |-> {PyInt(2)},
     ex_security_groups     |-> {None, List(<<>>), Str("default"),
                                 List(<<Str("default"), Str("ssh")>>)},
     ex_securitygroup       |-> {None, List(<<>>), Str("default"),
                                 List(<<Str("default"), Str("ssh")>>)},
     location               |-> {[t |-> "NodeLocation"],
                                 [t |-> "NodeLocation", availability_zone |-> None],
                                 [t |-> "NodeLocation", availability_zone |-> ZoneHere],
                                 [t |-> "NodeLocation", availability_zone |-> ZoneThere]},
     auth                   |-> {AuthSSHKey, AuthPassword},
     ex_keyname             |-> {Str("ccg-syd-staging")},
     ex_userdata            |-> {Str("hi")},
     ex_blockdevicemappings |->
        {List(<<>>), List(<<{"DeviceName"}>>), List(<<{"DeviceName", "VirtualName"}>>)},
     ex_iamprofile          |-> {Str(ArnProfile), Str(NameProfile), Str(""), PyInt(42), None},
     ex_ebs_optimized       |-> {PyBool(TRUE)},
     ex_subnet              |-> {[t |-> "EC2NetworkSubnet", id |-> "subnet-1"]}]

OptionNames == DOMAIN OptionValues

\* The arguments every call supplies: image and size (lines 117-118).
RequiredKwargs ==
    [image |-> [t |-> "NodeImage", id |-> "ami-f195f1cb"],
     size  |-> [t |-> "NodeSize", id |-> "t1.micro"]]

\* All dicts over the option names in S.
RECURSIVE DictsOver(_)
DictsOver(S) ==
    IF S = {} THEN {RequiredKwargs}
    ELSE LET k == CHOOSE x \in S : TRUE
         IN  {(k :> v) @@ d : v \in OptionValues[k], d \in DictsOver(S \ {k})}

\* The keyword-argument dicts with at most MaxOptions options.
CreateKwargs ==
    UNION {DictsOver(S) : S \in {T \in SUBSET OptionNames : Cardinality(T) <= MaxOptions}}

----------------------------------------------------------------------------
(* create_node, stage by stage.  A stage takes the keyword arguments and   *)
(* the params dict built so far and either raises or hands on the dict.    *)

Ok(p) == [kind |-> "ok", params |-> p]

\* Lines 117-125.
BaseParams(kw) ==
    ("Action" :> Str("RequestSpotInstances"))
    @@ ("SpotPrice" :> Str(PyStr(Get(kw, "ex_spot_price", None))))
    @@ ("InstanceCount" :> Str(PyStr(Get(kw, "ex_instance_count", Str("1")))))
    @@ ("LaunchSpecification.ImageId" :> Str(kw["image"].id))
    @@ ("LaunchSpecification.InstanceType" :> Str(kw["size"].id))

\* The security-group stage refusing the two options only when both hold
\* a value: kwargs.get(..) and kwargs.get(..) in place of the two `in` tests.
SecurityGroupsStage_ByValue(kw, p) ==
    IF Truthy(Get(kw, "ex_security_groups", None)) /\ Truthy(Get(kw, "ex_securitygroup", None))
    THEN Raised("ValueError",
                <<"You can only supply ex_security_groups or ex_securitygroup">>)
    ELSE LET security_groups == PyOr(Get(kw, "ex_security_groups", None),
                                     Get(kw, "ex_securitygroup", None))
             groups == IF security_groups.t = "list" THEN security_groups.v
                       ELSE <<security_groups>>
         IN  IF Truthy(security_groups)
             THEN Ok(Update(p, _pathlist("LaunchSpecification.SecurityGroup", groups)))
             ELSE Ok(p)

\* Lines 129-144.
SecurityGroupsStage(kw, p) ==
    IF "ex_security_groups" \in DOMAIN kw /\ "ex_securitygroup" \in DOMAIN kw
    THEN Raised("ValueError",
                <<"You can only supply ex_security_groups or ex_securitygroup">>)
    ELSE LET security_groups == PyOr(Get(kw, "ex_security_groups", None),
                                     Get(kw, "ex_securitygroup", None))
             groups == IF security_groups.t = "list" THEN security_groups.v
                       ELSE <<security_groups>>
         IN  IF Truthy(security_groups)
             THEN Ok(Update(p, _pathlist("LaunchSpecification.SecurityGroup", groups)))
             ELSE Ok(p)

\* The location stage without the region check of lines 150-152.
LocationStage_NoCheck(kw, p) ==
    IF "location" \in DOMAIN kw
    THEN LET availability_zone == GetAttr(kw["location"], "availability_zone", None)
         IN  IF Truthy(availability_zone)
             THEN Ok(Put(p, "LaunchSpecification.Placement.AvailabilityZone",
                         Str(availability_zone.name)))
             ELSE Ok(p)
    ELSE Ok(p)

\* Lines 146-153.
LocationStage(kw, p) ==
    IF "location" \in DOMAIN kw
    THEN LET availability_zone == GetAttr(kw["location"], "availability_zone", None)
         IN  IF Truthy(availability_zone)
             THEN IF availability_zone.region_name # region_name
                  THEN Raised("AttributeError",
                              <<"Invalid availability zone: ", availability_zone.name>>)
                  ELSE Ok(Put(p, "LaunchSpecification.Placement.AvailabilityZone",
                              Str(availability_zone.name)))
             ELSE Ok(p)
    ELSE Ok(p)

\* self._get_and_check_auth(auth) of the base driver, whose create_node
\* feature is ssh_key: an SSH key passes, anything else is refused.
_get_and_check_auth(auth) ==
    IF auth.t = "NodeAuthSSHKey" THEN Returned(auth)
    ELSE Raised("LibcloudError", <<"Provided auth object is not supported">>)

\* self.ex_find_or_import_keypair_by_key_material(pubkey): the key pair the
\* provider holds (or now holds) for the key material.
ex_find_or_import_keypair_by_key_material(pubkey) ==
    [keyName |-> "imported:" \o pubkey]

\* The auth stage without the check of lines 155-156: as in Python, the later
\* assignment of line 164 wins over that of line 161.
AuthStage_NoCheck(kw, p) ==
    LET auth == IF "auth" \in DOMAIN kw THEN _get_and_check_auth(kw["auth"])
                ELSE Returned(None)
    IN  IF auth.kind = "raise" THEN auth
        ELSE LET looked == IF "auth" \in DOMAIN kw THEN <<auth.value.pubkey>> ELSE <<>>
                 p1 == IF "auth" \in DOMAIN kw
                       THEN Put(p, "LaunchSpecification.KeyName",
                                Str(ex_find_or_import_keypair_by_key_material(
                                        auth.value.pubkey).keyName))
                       ELSE p
                 p2 == IF "ex_keyname" \in DOMAIN kw
                       THEN Put(p1, "LaunchSpecification.KeyName", kw["ex_keyname"])
                       ELSE p1
             IN  [kind |-> "ok", params |-> p2, lookups |-> looked]

\* Lines 155-164.  An accepted stage also reports the key-pair lookups made.
AuthStage(kw, p) ==
    IF "auth" \in DOMAIN kw /\ "ex_keyname" \in DOMAIN kw
    THEN Raised("AttributeError", <<"Cannot specify auth and ex_keyname together">>)
    ELSE LET auth == IF "auth" \in DOMAIN kw THEN _get_and_check_auth(kw["auth"])
                     ELSE Returned(None)
         IN  IF auth.kind = "raise" THEN auth
             ELSE LET looked == IF "auth" \in DOMAIN kw THEN <<auth.value.pubkey>>
                                ELSE <<>>
                      p1 == IF "auth" \in DOMAIN kw
                            THEN Put(p, "LaunchSpecification.KeyName",
                                     Str(ex_find_or_import_keypair_by_key_material(
                                             auth.value.pubkey).keyName))
                            ELSE p
                      p2 == IF "ex_keyname" \in DOMAIN kw
                            THEN Put(p1, "LaunchSpecification.KeyName", kw["ex_keyname"])
                            ELSE p1
                  IN  [kind |-> "ok", params |-> p2, lookups |-> looked]

\* base64.b64encode(b(s)).decode('utf-8'), on the user data the model
\* supplies.
b64encode(s) == CASE s = "hi" -> "aGk="

\* Lines 166-168.
UserDataStage(kw, p) ==
    IF "ex_userdata" \in DOMAIN kw
    THEN Ok(Put(p, "LaunchSpecification.UserData", Str(b64encode(kw["ex_userdata"].v))))
    ELSE Ok(p)

\* The IAM stage sending every string as a profile name.
IamProfileStage_NameOnly(kw, p) ==
    IF "ex_iamprofile" \in DOMAIN kw
    THEN IF kw["ex_iamprofile"].t # "str"
         THEN Raised("AttributeError", <<"ex_iamprofile not string">>)
         ELSE Ok(Put(p, "LaunchSpecification.IamInstanceProfile.Name",
                     kw["ex_iamprofile"]))
    ELSE Ok(p)

\* Lines 174-181.
IamProfileStage(kw, p) ==
    IF "ex_iamprofile" \in DOMAIN kw
    THEN IF kw["ex_iamprofile"].t # "str"
         THEN Raised("AttributeError", <<"ex_iamprofile not string">>)
         ELSE IF startswith(kw["ex_iamprofile"].v, "arn:aws:iam:")
         THEN Ok(Put(p, "LaunchSpecification.IamInstanceProfile.Arn",
                     kw["ex_iamprofile"]))
         ELSE Ok(Put(p, "LaunchSpecification.IamInstanceProfile.Name",
                     kw["ex_iamprofile"]))
    ELSE Ok(p)

\* Lines 183-187.
EbsSubnetStage(kw, p) ==
    LET p1 == IF "ex_ebs_optimized" \in DOMAIN kw
              THEN Put(p, "LaunchSpecification.EbsOptimized", kw["ex_ebs_optimized"])
              ELSE p
    IN  IF "ex_subnet" \in DOMAIN kw
        THEN Ok(Put(p1, "LaunchSpecification.SubnetId", Str(kw["ex_subnet"].id)))
        ELSE Ok(p1)

\* The return rule handing back the parsed list whatever its length.
CreateReturn_AlwaysList(object) ==
    LET spots == _to_spot_requests(object)
    IN  IF spots.kind = "raise" THEN spots ELSE Returned(List(spots.value))

\* Lines 190-195: what create_node returns for the response `object`.
CreateReturn(object) ==
    LET spots == _to_spot_requests(object)
    IN  IF spots.kind = "raise" THEN spots
        ELSE IF Len(spots.value) = 1 THEN Returned(spots.value[1])
        ELSE Returned(List(spots.value))

----------------------------------------------------------------------------
(* _get_block_device_mapping_params.                                       *)

MappingValue == [DeviceName |-> "/dev/sda1", VirtualName |-> "ephemeral0"]

\* The base driver's builder: BlockDeviceMapping.<idx>.<key> -> str(value)
\* for every key of every mapping, idx counting from 1.
SuperBlockDeviceMappingParams(block_device_mapping) ==
    LET keys == {<<idx, k>> : idx \in 1..Len(block_device_mapping.v),
                              k \in {"DeviceName", "VirtualName"}}
        have == {e \in keys : e[2] \in block_device_mapping.v[e[1]]}
        name(e) == "BlockDeviceMapping." \o IntStr(e[1]) \o "." \o e[2]
    IN  [key \in {name(e) : e \in have} |->
            Str(MappingValue[(CHOOSE e \in have : name(e) = key)[2]])]

\* 'LaunchSpecification.{0}'.format(key)
Prefixed(key) == "LaunchSpecification." \o key

\* How many times key carries the prefix.
RECURSIVE PrefixCount(_)
PrefixCount(key) ==
    IF startswith(key, "LaunchSpecification.")
    THEN 1 + PrefixCount(SubSeq(key, Len("LaunchSpecification.") + 1, Len(key)))
    ELSE 0

----------------------------------------------------------------------------
(* The driver as a state machine: one call at a time, from "idle" to       *)
(* "done".  create_node runs stage by stage; the provider's answer is      *)
(* drawn when the request is issued.                                       *)

ExIdle ==
    /\ ex_pc = "start"
    /\ ex_spot = None
    /\ ex_node = None
    /\ ex_calls = <<>>
    /\ ex_obs = <<>>
    /\ ex_error = NoResult

Init ==
    /\ pc = "idle"
    /\ op = "none"
    /\ kwargs = EmptyDict
    /\ params = EmptyDict
    /\ bdm = EmptyDict
    /\ ahead = {}
    /\ sent = <<>>
    /\ lookups = <<>>
    /\ response = <<>>
    /\ result = NoResult
    /\ ExIdle

\* A stage's outcome: raise and end the call, or go on to stage `next`.
Continue(r, next) ==
    IF r.kind = "raise"
    THEN /\ pc' = "done"
         /\ result' = r
         /\ UNCHANGED params
    ELSE /\ pc' = next
         /\ params' = r.params
         /\ UNCHANGED result

\* create_node(**kwargs) is called: lines 117-127.
CreateNode ==
    /\ pc = "idle"
    /\ \E kw \in CreateKwargs :
        /\ kwargs' = kw
        /\ params' = BaseParams(kw)
    /\ op' = "create_node"
    /\ pc' = "security_groups"
    /\ UNCHANGED <<bdm, ahead, sent, lookups, response, result>>
    /\ UNCHANGED ex_vars

CN_SecurityGroups ==
    /\ pc = "security_groups"
    /\ Continue(SecurityGroupsStage(kwargs, params), "location")
    /\ UNCHANGED <<op, kwargs, bdm, ahead, sent, lookups, response>>
    /\ UNCHANGED ex_vars

CN_Location ==
    /\ pc = "location"
    /\ Continue(LocationStage(kwargs, params), "auth")
    /\ UNCHANGED <<op, kwargs, bdm, ahead, sent, lookups, response>>
    /\ UNCHANGED ex_vars

CN_Auth ==
    /\ pc = "auth"
    /\ LET r == AuthStage(kwargs, params)
       IN  /\ Continue(r, "userdata")
           /\ lookups' = IF r.kind = "ok" THEN lookups \o r.lookups ELSE lookups
    /\ UNCHANGED <<op, kwargs, bdm, ahead, sent, response>>
    /\ UNCHANGED ex_vars

CN_UserData ==
    /\ pc = "userdata"
    /\ Continue(UserDataStage(kwargs, params), "blockdevicemappings")
    /\ UNCHANGED <<op, kwargs, bdm, ahead, sent, lookups, response>>
    /\ UNCHANGED ex_vars

\* Line 170: without the option the stage is skipped.
CN_NoBlockDeviceMappings ==
    /\ pc = "blockdevicemappings"
    /\ "ex_blockdevicemappings" \notin DOMAIN kwargs
    /\ pc' = "iamprofile"
    /\ UNCHANGED <<op, kwargs, params, bdm, ahead, sent, lookups, response, result>>
    /\ UNCHANGED ex_vars

\* Lines 171-172 enter _get_block_device_mapping_params: line 286 builds the
\* base dict and line 287 starts iterating over its keys.
BDM_Enter ==
    /\ pc = "blockdevicemappings"
    /\ "ex_blockdevicemappings" \in DOMAIN kwargs
    /\ bdm' = SuperBlockDeviceMappingParams(kwargs["ex_blockdevicemappings"])
    /\ ahead' = DOMAIN bdm'
    /\ pc' = "bdm_loop"
    /\ UNCHANGED <<op, kwargs, params, sent, lookups, response, result>>
    /\ UNCHANGED ex_vars

\* One turn of the loop of lines 287-289.  The iterator yields a key it has
\* ahead of it; the body inserts the prefixed key and deletes the yielded
\* one, while the iterator is live.  The dict's size is the same at every
\* call of next(), so the iterator raises nothing; where the inserted key
\* lands relative to the iterator's position is decided by its hash: ahead
\* (it is yielded again later) or behind (it is not).
BDM_Iterate ==
    /\ pc = "bdm_loop"
    /\ \E key \in ahead :
        LET new == Prefixed(key)
        IN  /\ bdm' = Del(Put(bdm, new, bdm[key]), key)
            /\ \/ ahead' = ahead \ {key}
               \/ /\ PrefixCount(new) < MaxPrefix
                  /\ ahead' = (ahead \ {key}) \cup {new}
    /\ UNCHANGED <<pc, op, kwargs, params, sent, lookups, response, result>>
    /\ UNCHANGED ex_vars

\* Line 290 returns the dict and line 171 merges it into params.
BDM_Return ==
    /\ pc = "bdm_loop"
    /\ ahead = {}
    /\ params' = Update(params, bdm)
    /\ pc' = "iamprofile"
    /\ UNCHANGED <<op, kwargs, bdm, ahead, sent, lookups, response, result>>
    /\ UNCHANGED ex_vars

\* The IAM stage with the request of line 189 issued ahead of the check.
CN_IamProfile_SendsFirst ==
    /\ pc = "iamprofile"
    /\ Continue(IamProfileStage(kwargs, params), "ebs_subnet")
    /\ sent' = Append(sent, params)
    /\ UNCHANGED <<op, kwargs, bdm, ahead, lookups, response>>
    /\ UNCHANGED ex_vars

CN_IamProfile ==
    /\ pc = "iamprofile"
    /\ Continue(IamProfileStage(kwargs, params), "ebs_subnet")
    /\ UNCHANGED <<op, kwargs, bdm, ahead, sent, lookups, response>>
    /\ UNCHANGED ex_vars

CN_EbsSubnet ==
    /\ pc = "ebs_subnet"
    /\ Continue(EbsSubnetStage(kwargs, params), "request")
    /\ UNCHANGED <<op, kwargs, bdm, ahead, sent, lookups, response>>
    /\ UNCHANGED ex_vars

\* The item shapes the provider's answers to create_node are drawn from.
CreateShapes == {"open", "active", "failed", UnknownToken}

\* Lines 189-195: the request goes out, the provider answers, the answer is
\* parsed and returned.
CN_Request ==
    /\ pc = "request"
    /\ sent' = Append(sent, params)
    /\ \E object \in Responses(CreateShapes) :
        /\ response' = object
        /\ result' = CreateReturn(object)
    /\ pc' = "done"
    /\ UNCHANGED <<op, kwargs, params, bdm, ahead, lookups>>
    /\ UNCHANGED ex_vars

\* The spot request records a caller can hold.
SpotRequests == {[t |-> "EC2SpotRequest", id |-> Str("sir-1")]}

\* ex_cancel_spot_instance_request(spot_request): lines 206-212.
Cancel ==
    /\ pc = "idle"
    /\ op' = "ex_cancel_spot_instance_request"
    /\ \E spot_request \in SpotRequests, res \in Responses(ItemShapes) :
        /\ kwargs' = [spot_request |-> spot_request]
        /\ params' = CancelParams(spot_request)
        /\ sent' = Append(sent, params')
        /\ response' = res
        /\ result' = ex_cancel_spot_instance_request(res)
    /\ pc' = "done"
    /\ UNCHANGED <<bdm, ahead, lookups>>
    /\ UNCHANGED ex_vars

\* ex_list_spot_requests(spot_request_ids, filters): lines 231-240.
ListSpotRequests ==
    /\ pc = "idle"
    /\ op' = "ex_list_spot_requests"
    /\ \E ids \in {None, List(<<>>), List(<<Str("sir-1")>>),
                   List(<<Str("sir-1"), Str("sir-2")>>)},
          filters \in {None, [t |-> "dict", v |-> ("state" :> Str("open"))]},
          object \in Responses(ItemShapes) :
        /\ kwargs' = [spot_request_ids |-> ids, filters |-> filters]
        /\ params' = ListParams(ids, filters)
        /\ sent' = Append(sent, params')
        /\ response' = object
        /\ result' = LET r == _to_spot_requests(object)
                     IN  IF r.kind = "raise" THEN r ELSE Returned(List(r.value))
    /\ pc' = "done"
    /\ UNCHANGED <<bdm, ahead, lookups>>
    /\ UNCHANGED ex_vars

Next ==
    \/ CreateNode
    \/ CN_SecurityGroups
    \/ CN_Location
    \/ CN_Auth
    \/ CN_UserData
    \/ CN_NoBlockDeviceMappings
    \/ BDM_Enter
    \/ BDM_Iterate
    \/ BDM_Return
    \/ CN_IamProfile
    \/ CN_EbsSubnet
    \/ CN_Request
    \/ Cancel
    \/ ListSpotRequests

Spec == Init /\ [][Next]_vars

----------------------------------------------------------------------------
(* example.py: create_spot_request, from the create_node call of line 33   *)
(* to the assertion of line 62.  Every driver call is one step; what the   *)
(* provider answers is drawn at the call.                                  *)

NODE_NAME    == "test-node"
KEYPAIR_NAME == "ccg-syd-staging"

\* The keyword arguments of the call of lines 33-36.
ExampleKwargs ==
    ("name" :> Str(NODE_NAME))
    @@ ("ex_spot_price" :> Str("0.08"))
    @@ ("ex_keyname" :> Str(KEYPAIR_NAME))
    @@ ("ex_securitygroup" :> List(<<Str("default"), Str("ssh")>>))
    @@ RequiredKwargs

\* The stages of create_node in sequence, for keyword arguments without
\* ex_blockdevicemappings: the params sent (lines 117-187), or the error.
BuildParams(kw) ==
    LET r1 == SecurityGroupsStage(kw, BaseParams(kw))
        r2 == IF r1.kind = "raise" THEN r1 ELSE LocationStage(kw, r1.params)
        r3 == IF r2.kind = "raise" THEN r2 ELSE AuthStage(kw, r2.params)
        r4 == IF r3.kind = "raise" THEN r3 ELSE UserDataStage(kw, r3.params)
        r5 == IF r4.kind = "raise" THEN r4 ELSE IamProfileStage(kw, r4.params)
    IN  IF r5.kind = "raise" THEN r5 ELSE EbsSubnetStage(kw, r5.params)

Call(f, arg) == [f |-> f, arg |-> arg]

\* The loop condition of line 39 taking any state short of ACTIVE for OPEN.
WhileCondition_UntilActive(spot) == spot.state # ACTIVE

\* Line 39: spot.state == SpotRequestState.OPEN
WhileCondition(spot) == spot.state = OPEN

\* Line 45: spot.state == SpotRequestState.ACTIVE
IfCondition(spot) == spot.state = ACTIVE

\* The script ends with an uncaught exception.
ExRaise(e) ==
    /\ ex_pc' = "raised"
    /\ ex_error' = e

\* ex_list_spot_requests(spot_request_ids=[spot.id])[0] for the answer
\* `object`: the first record, or the error of the parse or of the index.
FirstListed(object) ==
    LET r == _to_spot_requests(object)
    IN  IF r.kind = "raise" THEN r
        ELSE IF Len(r.value) = 0 THEN Raised("IndexError", <<"list index out of range">>)
        ELSE Returned(r.value[1])

\* Lines 33-36.
ExCreate ==
    /\ ex_pc = "start"
    /\ LET built == BuildParams(ExampleKwargs)
       IN  /\ ex_calls' = Append(ex_calls, Call("create_node", Str(NODE_NAME)))
           /\ IF built.kind = "raise"
              THEN ExRaise(built) /\ UNCHANGED ex_spot
              ELSE \E object \in Responses(ItemShapes) :
                     LET r == CreateReturn(object)
                     IN  IF r.kind = "raise"
                         THEN ExRaise(r) /\ UNCHANGED ex_spot
                         ELSE /\ ex_spot' = r.value
                              /\ ex_pc' = "while"
                              /\ UNCHANGED ex_error
    /\ UNCHANGED <<ex_node, ex_obs>>
    /\ UNCHANGED drv_vars

\* Line 39: the loop condition reads spot.state.  create_node hands back a
\* list unless the answer held exactly one item, and a list has no state.
ExWhile ==
    /\ ex_pc = "while"
    /\ IF ex_spot.t # "EC2SpotRequest"
       THEN /\ ExRaise(Raised("AttributeError", <<"'list' object has no attribute 'state'">>))
            /\ UNCHANGED ex_obs
       ELSE /\ ex_obs' = Append(ex_obs, ex_spot.state)
            /\ ex_pc' = IF WhileCondition(ex_spot) THEN "poll" ELSE "if"
            /\ UNCHANGED ex_error
    /\ UNCHANGED <<ex_spot, ex_node, ex_calls>>
    /\ UNCHANGED drv_vars

\* Lines 40-42: print, sleep, list the request again by its id.
ExPoll ==
    /\ ex_pc = "poll"
    /\ Len(ex_obs) <= MaxPolls
    /\ ex_calls' = Append(ex_calls, Call("ex_list_spot_requests", ex_spot.id))
    /\ \E object \in Responses(ItemShapes) :
        LET r == FirstListed(object)
        IN  IF r.kind = "raise"
            THEN ExRaise(r) /\ UNCHANGED ex_spot
            ELSE /\ ex_spot' = r.value
                 /\ ex_pc' = "while"
                 /\ UNCHANGED ex_error
    /\ UNCHANGED <<ex_node, ex_obs>>
    /\ UNCHANGED drv_vars

\* Line 45.
ExIf ==
    /\ ex_pc = "if"
    /\ ex_pc' = IF IfCondition(ex_spot) THEN "list_nodes" ELSE "end"
    /\ UNCHANGED <<ex_spot, ex_node, ex_calls, ex_obs, ex_error>>
    /\ UNCHANGED drv_vars

\* Line 50: driver.list_nodes(ex_node_ids=[spot.instance_id])[0]
ExListNodes ==
    /\ ex_pc = "list_nodes"
    /\ ex_calls' = Append(ex_calls, Call("list_nodes", ex_spot.instance_id))
    /\ \E found \in BOOLEAN :
        IF found
        THEN /\ ex_node' = [t |-> "Node", id |-> ex_spot.instance_id]
             /\ ex_pc' = "tag"
             /\ UNCHANGED ex_error
        ELSE /\ ExRaise(Raised("IndexError", <<"list index out of range">>))
             /\ UNCHANGED ex_node
    /\ UNCHANGED <<ex_spot, ex_obs>>
    /\ UNCHANGED drv_vars

\* Line 51.
ExTag ==
    /\ ex_pc = "tag"
    /\ ex_calls' = Append(ex_calls, Call("ex_create_tags", ex_node.id))
    /\ ex_pc' = "cancel"
    /\ UNCHANGED <<ex_spot, ex_node, ex_obs, ex_error>>
    /\ UNCHANGED drv_vars

\* Line 54: the outcome is printed, whichever it is.
ExCancel ==
    /\ ex_pc = "cancel"
    /\ ex_calls' = Append(ex_calls, Call("ex_cancel_spot_instance_request", ex_spot.id))
    /\ \E res \in Responses(ItemShapes) :
        LET r == ex_cancel_spot_instance_request(res)
        IN  IF r.kind = "raise"
            THEN ExRaise(r)
            ELSE /\ ex_pc' = "destroy"
                 /\ UNCHANGED ex_error
    /\ UNCHANGED <<ex_spot, ex_node, ex_obs>>
    /\ UNCHANGED drv_vars

\* Line 57.
ExDestroy ==
    /\ ex_pc = "destroy"
    /\ ex_calls' = Append(ex_calls, Call("destroy_node", ex_node.id))
    /\ ex_pc' = "tag_terminated"
    /\ UNCHANGED <<ex_spot, ex_node, ex_obs, ex_error>>
    /\ UNCHANGED drv_vars

\* Line 58.
ExTagTerminated ==
    /\ ex_pc = "tag_terminated"
    /\ ex_calls' = Append(ex_calls, Call("ex_create_tags", ex_node.id))
    /\ ex_pc' = "recheck"
    /\ UNCHANGED <<ex_spot, ex_node, ex_obs, ex_error>>
    /\ UNCHANGED drv_vars

\* Lines 61-62.
ExRecheck ==
    /\ ex_pc = "recheck"
    /\ ex_calls' = Append(ex_calls, Call("ex_list_spot_requests", ex_spot.id))
    /\ \E object \in Responses(ItemShapes) :
        LET r == FirstListed(object)
        IN  IF r.kind = "raise"
            THEN ExRaise(r) /\ UNCHANGED ex_spot
            ELSE /\ ex_spot' = r.value
                 /\ IF r.value.state = CANCELLED
                    THEN ex_pc' = "end" /\ UNCHANGED ex_error
                    ELSE ExRaise(Raised("AssertionError", <<>>))
    /\ UNCHANGED <<ex_node, ex_obs>>
    /\ UNCHANGED drv_vars

ExampleNext ==
    \/ ExCreate
    \/ ExWhile
    \/ ExPoll
    \/ ExIf
    \/ ExListNodes
    \/ ExTag
    \/ ExCancel
    \/ ExDestroy
    \/ ExTagTerminated
    \/ ExRecheck

ExampleSpec == Init /\ [][ExampleNext]_vars

----------------------------------------------------------------------------
(* Vocabulary of the properties.                                           *)

IsCreate    == op = "create_node"
Supplied(k) == k \in DOMAIN kwargs

\* The error classes of the specification, by the raise they name.
SecurityGroupConflict(r) ==
    /\ r.kind = "raise"
    /\ r.exc = "ValueError"
    /\ r.msg = <<"You can only supply ex_security_groups or ex_securitygroup">>

AuthConflict(r) ==
    /\ r.kind = "raise"
    /\ r.exc = "AttributeError"
    /\ r.msg = <<"Cannot specify auth and ex_keyname together">>

ConfigurationError(r) == SecurityGroupConflict(r) \/ AuthConflict(r)

InvalidParameterError(r) ==
    /\ r.kind = "raise"
    /\ r.exc = "AttributeError"
    /\ Len(r.msg) = 2
    /\ r.msg[1] = "Invalid availability zone: "

TypeErrorClass(r) ==
    /\ r.kind = "raise"
    /\ r.exc = "AttributeError"
    /\ r.msg = <<"ex_iamprofile not string">>

\* What the call supplies.
BothAliases == Supplied("ex_security_groups") /\ Supplied("ex_securitygroup")

HasZone ==
    /\ Supplied("location")
    /\ "availability_zone" \in DOMAIN kwargs["location"]
    /\ kwargs["location"]["availability_zone"].t = "ExEC2AvailabilityZone"

SuppliedZone == kwargs["location"]["availability_zone"]

ZoneElsewhere == HasZone /\ SuppliedZone.region_name # region_name
ZoneHereabout == HasZone /\ SuppliedZone.region_name = region_name

BothAuth     == Supplied("auth") /\ Supplied("ex_keyname")
SSHKeyAuth   == Supplied("auth") /\ "pubkey" \in DOMAIN kwargs["auth"]
AuthRefused  == Supplied("auth") /\ ~SSHKeyAuth

KeyNameIs(v) ==
    /\ "LaunchSpecification.KeyName" \in DOMAIN params
    /\ params["LaunchSpecification.KeyName"] = v

\* The five tokens and states of the specification, paired.
FiveTokens == {"open", "closed", "failed", "cancelled", "active"}

TokenState(tok) ==
    CASE tok = "open"      -> OPEN
      [] tok = "closed"    -> CLOSED
      [] tok = "failed"    -> FAILED
      [] tok = "cancelled" -> CANCELLED
      [] tok = "active"    -> ACTIVE

StateToken(st) ==
    CASE st = OPEN      -> "open"
      [] st = CLOSED    -> "closed"
      [] st = FAILED    -> "failed"
      [] st = CANCELLED -> "cancelled"
      [] st = ACTIVE    -> "active"
      [] OTHER          -> "?"

\* The state tokens of a response, item by item, in order.
StateTokens(res) ==
    LET RECURSIVE walk(_)
        walk(i) == IF i > Len(res) THEN <<>>
                   ELSE (IF "state" \in DOMAIN res[i] THEN <<res[i]["state"]>> ELSE <<>>)
                        \o walk(i + 1)
    IN  walk(1)

\* An item the parser has everything for.
WellFormed(el) ==
    /\ "state" \in DOMAIN el
    /\ el["state"] \in FiveTokens
    /\ "launchSpecification" \in DOMAIN el

----------------------------------------------------------------------------
(* C1.  ex_cancel_spot_instance_request returns true if and only if the    *)
(* first state token of the cancel response is the token of CANCELLED; for *)
(* each of open, closed, failed and active it returns false and does not   *)
(* raise.                                                                  *)
C1_CancelTrueIffFirstCancelled ==
    (op = "ex_cancel_spot_instance_request" /\ pc = "done") =>
        LET toks == StateTokens(response)
        IN  (Len(toks) > 0 /\ toks[1] \in FiveTokens) =>
                /\ result.kind = "return"
                /\ result.value = PyBool(TokenState(toks[1]) = CANCELLED)
                /\ (toks[1] \in {"open", "closed", "failed", "active"}
                        => result.value = PyBool(FALSE))

\* A cancel whose answer leads with cancelled and goes on with another
\* token has returned true.
C1_Witness ==
    /\ op = "ex_cancel_spot_instance_request"
    /\ pc = "done"
    /\ StateTokens(response) = <<"cancelled", "open">>
    /\ result = Returned(PyBool(TRUE))

(* C2.  The token-to-state map is defined on exactly the five tokens and   *)
(* sends each to its own state, so that a parsed record's state names the  *)
(* token it came from; a response holding an item whose state is any other *)
(* string, or no state at all, makes the parse fail: no record is built    *)
(* from it and no state is defaulted.                                      *)
C2_MapTotalExactNoDefault ==
    /\ DOMAIN SPOT_REQUEST_STATE_MAP = FiveTokens
    /\ \A tok \in FiveTokens : StateToken(SPOT_REQUEST_STATE_MAP[tok]) = tok
    /\ (op = "ex_list_spot_requests" /\ pc = "done") =>
        /\ (\A i \in 1..Len(response) : WellFormed(response[i]))
              => /\ result.kind = "return"
                 /\ Len(result.value.v) = Len(response)
                 /\ \A i \in 1..Len(response) :
                        StateToken(result.value.v[i].state) = response[i]["state"]
        /\ (\E i \in 1..Len(response) :
                "state" \notin DOMAIN response[i] \/ response[i]["state"] \notin FiveTokens)
              => /\ result.kind = "raise"
                 /\ result.exc \in {"KeyError", "IndexError"}

\* A listing whose second item carries an unknown token, after a first item
\* that parses, has raised KeyError naming the token.
C2_Witness ==
    /\ op = "ex_list_spot_requests"
    /\ pc = "done"
    /\ Len(response) = 2
    /\ "state" \in DOMAIN response[1]
    /\ response[1]["state"] = "cancelled"
    /\ "state" \in DOMAIN response[2]
    /\ response[2]["state"] = UnknownToken
    /\ result = Raised("KeyError", <<UnknownToken>>)

(* C3.  A create_node call that supplies both ex_security_groups and       *)
(* ex_securitygroup fails with the security-group ConfigurationError (the  *)
(* ValueError of line 130), whatever the two values and whatever else is   *)
(* supplied: the call gets no further than the security-group stage, makes *)
(* no key-pair lookup and sends nothing.                                   *)
C3_BothAliasesAlwaysFail ==
    (IsCreate /\ BothAliases) =>
        /\ pc \in {"security_groups", "done"}
        /\ pc = "done" => /\ SecurityGroupConflict(result)
                          /\ ConfigurationError(result)
                          /\ sent = <<>>
                          /\ lookups = <<>>

\* Both aliases supplied with values None and [], next to a third option
\* that would fail on its own: the call has ended with the conflict.
C3_Witness ==
    /\ IsCreate
    /\ pc = "done"
    /\ BothAliases
    /\ kwargs["ex_security_groups"] = None
    /\ kwargs["ex_securitygroup"] = List(<<>>)
    /\ Supplied("ex_iamprofile")
    /\ kwargs["ex_iamprofile"] = PyInt(42)
    /\ SecurityGroupConflict(result)

PlacementIs(name) ==
    /\ "LaunchSpecification.Placement.AvailabilityZone" \in DOMAIN params
    /\ params["LaunchSpecification.Placement.AvailabilityZone"] = Str(name)

ZoneErrorNaming(r, name) ==
    InvalidParameterError(r) /\ r.msg[2] = name

(* C4, as claimed.  A create_node call with a zone of another region       *)
(* always fails with InvalidParameterError naming the zone; with a zone of *)
(* the driver's region the zone check never fails and                      *)
(* LaunchSpecification.Placement.AvailabilityZone is the zone's name.      *)
C4_Original ==
    (IsCreate /\ pc = "done") =>
        /\ ZoneElsewhere => ZoneErrorNaming(result, SuppliedZone.name)
        /\ ZoneHereabout => /\ ~InvalidParameterError(result)
                            /\ PlacementIs(SuppliedZone.name)

(* C4, amended.  In a create_node call that does not supply both           *)
(* security-group aliases: with a zone of another region the call ends at  *)
(* the zone check with InvalidParameterError naming the zone, nothing      *)
(* sent; with a zone of the driver's region the zone check does not fail   *)
(* and, from the zone stage on, params holds                               *)
(* LaunchSpecification.Placement.AvailabilityZone = the zone's name.       *)
C4_ZoneCheckedAfterAliases ==
    (IsCreate /\ ~BothAliases /\ pc \notin {"security_groups", "location"}) =>
        /\ ZoneElsewhere => /\ pc = "done"
                            /\ ZoneErrorNaming(result, SuppliedZone.name)
                            /\ sent = <<>>
        /\ ZoneHereabout => /\ ~InvalidParameterError(result)
                            /\ PlacementIs(SuppliedZone.name)

\* A call with one alias and a zone of another region has ended with the
\* error naming that zone.
C4_Witness ==
    /\ IsCreate
    /\ pc = "done"
    /\ Supplied("ex_securitygroup")
    /\ ~BothAliases
    /\ ZoneElsewhere
    /\ result = Raised("AttributeError", <<"Invalid availability zone: ", "us-west-1b">>)

ResolvedKeyName == Str(ex_find_or_import_keypair_by_key_material(kwargs["auth"].pubkey).keyName)

(* C5, as claimed.  A create_node call with both auth and ex_keyname       *)
(* always fails with ConfigurationError and makes no key-pair lookup; with *)
(* only auth (a credential with a public key), LaunchSpecification.KeyName *)
(* is the key-pair name resolved from that key; with only ex_keyname it is *)
(* that name and no lookup is made.                                        *)
C5_Original ==
    (IsCreate /\ pc = "done") =>
        /\ BothAuth => ConfigurationError(result) /\ lookups = <<>>
        /\ (SSHKeyAuth /\ ~Supplied("ex_keyname")) => KeyNameIs(ResolvedKeyName)
        /\ (Supplied("ex_keyname") /\ ~Supplied("auth"))
              => KeyNameIs(kwargs["ex_keyname"]) /\ lookups = <<>>

(* C5, amended.  In a create_node call that passes the security-group and  *)
(* zone checks: with both auth and ex_keyname the call ends at the auth    *)
(* check with the auth ConfigurationError, no key-pair lookup made and     *)
(* nothing sent; with only auth (a credential with a public key), exactly  *)
(* one lookup of that key is made and LaunchSpecification.KeyName is the   *)
(* resolved name; with only ex_keyname, LaunchSpecification.KeyName is     *)
(* that name and no lookup is made.                                        *)
C5_AuthCheckedAfterZone ==
    (IsCreate /\ ~BothAliases /\ ~ZoneElsewhere
        /\ pc \notin {"security_groups", "location", "auth"}) =>
        /\ BothAuth => /\ pc = "done"
                       /\ AuthConflict(result)
                       /\ lookups = <<>>
                       /\ sent = <<>>
        /\ (SSHKeyAuth /\ ~Supplied("ex_keyname"))
              => /\ KeyNameIs(ResolvedKeyName)
                 /\ lookups = <<kwargs["auth"].pubkey>>
        /\ (Supplied("ex_keyname") /\ ~Supplied("auth"))
              => /\ KeyNameIs(kwargs["ex_keyname"])
                 /\ lookups = <<>>

\* A call with auth and ex_keyname, and a zone of the driver's region, has
\* ended with the conflict and without a lookup.
C5_Witness ==
    /\ IsCreate
    /\ pc = "done"
    /\ BothAuth
    /\ ZoneHereabout
    /\ AuthConflict(result)
    /\ lookups = <<>>

(* C6.  _get_block_device_mapping_params returns a dict holding, for every *)
(* key of the base builder's dict, that key prefixed exactly once with     *)
(* 'LaunchSpecification.' and carrying the base value, and no other key,   *)
(* for zero, one or several base keys.  (Stated at the return of the       *)
(* builder into create_node.)                                              *)
C6_EveryKeyPrefixedOnce ==
    (IsCreate /\ pc = "iamprofile" /\ Supplied("ex_blockdevicemappings")) =>
        LET base == SuperBlockDeviceMappingParams(kwargs["ex_blockdevicemappings"])
        IN  /\ DOMAIN bdm = {Prefixed(key) : key \in DOMAIN base}
            /\ \A key \in DOMAIN base : bdm[Prefixed(key)] = base[key]

IamArn  == "LaunchSpecification.IamInstanceProfile.Arn"
IamName == "LaunchSpecification.IamInstanceProfile.Name"

IamAsClaimed ==
    LET v == kwargs["ex_iamprofile"]
    IN  /\ (v.t = "str" /\ startswith(v.v, "arn:aws:iam:"))
              => /\ IamArn \in DOMAIN params
                 /\ params[IamArn] = v
                 /\ IamName \notin DOMAIN params
        /\ (v.t = "str" /\ ~startswith(v.v, "arn:aws:iam:") /\ v.v # "")
              => /\ IamName \in DOMAIN params
                 /\ params[IamName] = v
                 /\ IamArn \notin DOMAIN params
        /\ v.t # "str" => pc = "done" /\ TypeErrorClass(result) /\ sent = <<>>

(* C7, as claimed.  For ex_iamprofile, a string beginning 'arn:aws:iam:'   *)
(* always sets LaunchSpecification.IamInstanceProfile.Arn and not the Name *)
(* key, any other non-empty string always sets the Name key and not the    *)
(* Arn key, and a non-string always fails with the TypeError-class error.  *)
C7_Original ==
    (IsCreate /\ pc = "done" /\ Supplied("ex_iamprofile")) => IamAsClaimed

(* C7, amended.  In a create_node call in which no earlier step raised     *)
(* (the security-group, zone and auth checks and the credential check      *)
(* pass), from the IAM stage on: a string beginning 'arn:aws:iam:' is set  *)
(* as LaunchSpecification.IamInstanceProfile.Arn and the Name key is not   *)
(* set; any other non-empty string is set as the Name key and the Arn key  *)
(* is not set; a non-string ends the call with the TypeError-class error,  *)
(* nothing sent.                                                           *)
C7_IamClassifiedOnceReached ==
    (IsCreate /\ Supplied("ex_iamprofile")
        /\ ~BothAliases /\ ~ZoneElsewhere /\ ~BothAuth /\ ~AuthRefused
        /\ pc \in {"ebs_subnet", "request", "done"}) => IamAsClaimed

\* A call with an ARN profile has sent its request with the Arn key.
C7_Witness ==
    /\ IsCreate
    /\ pc = "done"
    /\ Supplied("ex_iamprofile")
    /\ kwargs["ex_iamprofile"] = Str(ArnProfile)
    /\ Len(sent) = 1
    /\ IamArn \in DOMAIN sent[1]
    /\ sent[1][IamArn] = Str(ArnProfile)
    /\ IamName \notin DOMAIN sent[1]

\* The record the specification expects for an item.
RecordMatches(rec, el) ==
    /\ rec.t = "EC2SpotRequest"
    /\ rec.id = Str(el["spotInstanceRequestId"])
    /\ rec.state = TokenState(el["state"])
    /\ rec.instance_id = (IF "instanceId" \in DOMAIN el THEN Str(el["instanceId"]) ELSE None)

(* C8.  When the create response parses, create_node returns a bare        *)
(* EC2SpotRequest for exactly one item, and otherwise the parsed sequence: *)
(* empty for no item, and for N >= 2 items N records in response order,    *)
(* each with its own item's id, state and instance id.                     *)
C8_BareRecordOnlyForOne ==
    (IsCreate /\ pc = "done" /\ Len(sent) = 1
        /\ \A i \in 1..Len(response) : WellFormed(response[i])) =>
        /\ result.kind = "return"
        /\ IF Len(response) = 1
           THEN RecordMatches(result.value, response[1])
           ELSE /\ result.value.t = "list"
                /\ Len(result.value.v) = Len(response)
                /\ \A i \in 1..Len(response) :
                        RecordMatches(result.value.v[i], response[i])

\* A create answered with an active and an open item has returned the two
\* records in that order.
C8_Witness ==
    /\ IsCreate
    /\ pc = "done"
    /\ Len(response) = 2
    /\ result.kind = "return"
    /\ result.value.t = "list"
    /\ Len(result.value.v) = 2
    /\ result.value.v[1].state = ACTIVE
    /\ result.value.v[1].id = Str("sir-1")
    /\ result.value.v[2].state = OPEN
    /\ result.value.v[2].id = Str("sir-2")

ValidationError(r) ==
    \/ SecurityGroupConflict(r)
    \/ InvalidParameterError(r)
    \/ AuthConflict(r)
    \/ TypeErrorClass(r)

(* C10.  create_node issues RequestSpotInstances only after every          *)
(* validation check has passed: no request has been issued while the       *)
(* stages run, none when the call ends with one of its validation errors,  *)
(* and when the call returns exactly one has been issued, a                *)
(* RequestSpotInstances carrying the params built.                         *)
C10_RequestOnlyAfterValidation ==
    IsCreate =>
        /\ pc # "done" => sent = <<>>
        /\ (pc = "done" /\ ValidationError(result)) => sent = <<>>
        /\ (pc = "done" /\ result.kind = "return")
              => /\ Len(sent) = 1
                 /\ sent[1] = params
                 /\ sent[1]["Action"] = Str("RequestSpotInstances")

\* A call that passed the earlier checks has ended on a non-string
\* ex_iamprofile with nothing sent.
C10_Witness ==
    /\ IsCreate
    /\ pc = "done"
    /\ Supplied("ex_securitygroup")
    /\ ZoneHereabout
    /\ TypeErrorClass(result)
    /\ sent = <<>>

----------------------------------------------------------------------------
(* The example caller.                                                     *)

CleanupCalls == {"list_nodes", "ex_create_tags", "ex_cancel_spot_instance_request",
                 "destroy_node"}

AfterLoop == {"if", "list_nodes", "tag", "cancel", "destroy", "tag_terminated",
              "recheck", "end"}

LastObs == ex_obs[Len(ex_obs)]

\* What holds of the calls made and the states observed so far.
C9_State ==
    \* an observation is followed by another only if it was OPEN
    /\ \A i \in 1..(Len(ex_obs) - 1) : ex_obs[i] = OPEN
    \* every observation but the first was obtained by a listing, by the id
    /\ \A i \in 2..Len(ex_obs) : ex_calls[i] = Call("ex_list_spot_requests", Str("sir-1"))
    \* the loop is left only on an observation that is not OPEN
    /\ ex_pc \in AfterLoop => Len(ex_obs) > 0 /\ LastObs # OPEN
    \* tag, cancel and destroy only after a first non-OPEN observation of ACTIVE
    /\ (\E i \in 1..Len(ex_calls) : ex_calls[i].f \in CleanupCalls)
          => Len(ex_obs) > 0 /\ LastObs = ACTIVE
    \* cancel before destroy
    /\ \A j \in 1..Len(ex_calls) :
          ex_calls[j].f = "destroy_node"
              => \E i \in 1..(j - 1) : ex_calls[i].f = "ex_cancel_spot_instance_request"
    \* CLOSED, FAILED, CANCELLED: the script ends with no further call
    /\ (Len(ex_obs) > 0 /\ LastObs \in {CLOSED, FAILED, CANCELLED})
          => /\ ex_pc \in {"if", "end"}
             /\ Len(ex_calls) = Len(ex_obs)

\* What holds of every step: after an OPEN observation the next thing the
\* script does is list the request again; after any other, it lists no more
\* within the loop.
C9_Step ==
    /\ (ex_pc = "while" /\ ex_spot.t = "EC2SpotRequest")
          => ex_pc' = (IF ex_spot.state = OPEN THEN "poll" ELSE "if")
    /\ ex_pc = "poll"
          => /\ LastObs = OPEN
             /\ ex_calls' = Append(ex_calls, Call("ex_list_spot_requests", ex_spot.id))
             /\ ex_pc' \in {"while", "raised"}

(* C9.  In example.py, after create_node the request is listed again by    *)
(* its id for as long as the last observed state is OPEN, and polling      *)
(* stops at the first observation that is not OPEN; the tag, cancel and    *)
(* destroy calls are made only if that observation is ACTIVE, cancel       *)
(* before destroy; on CLOSED, FAILED or CANCELLED no further call is made; *)
(* the loop has no bound of its own: the script gets past it only on an    *)
(* observation that is not OPEN.  (An error raised by a driver call ends   *)
(* the script where it is raised.)                                         *)
C9_PollWhileOpenCleanupOnlyIfActive ==
    []C9_State /\ [][C9_Step]_vars

\* A run that saw OPEN twice, then ACTIVE, and went through tag, cancel,
\* destroy to the end.
C9_Witness ==
    /\ ex_pc = "end"
    /\ ex_obs = <<OPEN, OPEN, ACTIVE>>
    /\ Len(ex_calls) = 9
    /\ ex_calls[6].f = "ex_cancel_spot_instance_request"
    /\ ex_calls[7].f = "destroy_node"

=============================================================================
